---- MODULE Spec2Model ----
(***************************************************************************)
(* Goroutine-local storage (package gls): the context managers             *)
(* (SetValues / GetValue / Go), the identity pool (idPool) and the shared  *)
(* slot array (globalMaps, extend, WrapWithGLS, Set, Get).                 *)
(*                                                                         *)
(* A task is a goroutine.  Every task has a call stack of SetValues        *)
(* frames; the callbacks are user code, which is left arbitrary: at pc     *)
(* "user" a task may call any operation of the library, return from the    *)
(* callback it is in, or panic.                                            *)
(*                                                                         *)
(* ContextManager.mtx and mgrRegistryMtx are taken and released within one *)
(* call, around accesses to m.values and mgrRegistry only.  Where the      *)
(* bindings are studied a section under one of them is one step; where the *)
(* locks are studied (SpecLock) taking the lock is a step of its own, a    *)
(* task waits for a lock another task holds, and Go holds the registry     *)
(* lock from its first line to its last.                                   *)
(***************************************************************************)
EXTENDS Integers, Sequences, FiniteSets, TLC

\* ------------------------------------------------------------------ bounds
NumTasks == 2        \* goroutines of the model (task 1 is main)
NumMgrs == 2         \* context managers that can be constructed
NumKeys == 2         \* keys of a Values map
MaxDepth == 2        \* nesting depth of the SetValues calls made by the code of main
SpawnDepth == 1      \* nesting depth of the SetValues calls made by the code of a spawned task

\* ------------------------------------------------------- program constants
initialMaxGoroutineCount == 1024
extendUnit == 128

Tasks == 1..NumTasks
Mgrs == 1..NumMgrs
Keys == 1..NumKeys
\* The library copies values and never looks into them: a call made by task t
\* with d calls in progress around it binds the value ValueOf(t, d), so that
\* every call in progress binds a value of its own and a binding names the
\* call it is from.
Stride == NumMgrs + MaxDepth + SpawnDepth + 1
Vals == 1..(NumTasks * Stride)
ValueOf(t, d) == (t - 1) * Stride + d + 1
None == 0                       \* "no value": the key is absent from a map
NoGid == -1                     \* GetGoroutineId() returned ok = false
Gids == 0..NumTasks             \* the identities the pool hands out (NumTasks tasks need fewer)

\* A Values map: key -> value, None where the key is absent.
Maps == [Keys -> Vals \cup {None}]
EmptyMap == [k \in Keys |-> None]
NoSlot == <<>>                  \* m.values has no entry for the gid
BoundKeys(v) == {k \in Keys : v[k] # None}
\* Variant: no map has length 0.
Size_plusOne(v) == Cardinality(BoundKeys(v)) + 1
\* len(v).
Size(v) == Cardinality(BoundKeys(v))

VARIABLES
  pc,             \* task -> position
  stack,          \* task -> sequence of frames (SetValues calls in progress)
  cur,            \* task -> locals of the library call in progress
  how,            \* task -> "return" | "panic": how the callback of the top frame ended
  gid,            \* task -> its stack tag (goroutine id), NoGid if it has none
  todo,           \* task -> the closures Go wrapped around its function, outermost first
  ran,            \* task -> number of times its function was started
  origin,         \* task -> "main" | "go" (Go) | "plain" (go statement) | "none"
  inherit,        \* task -> the bindings its spawner had, per manager, when Go was called
  ret,            \* task -> the call that has just come back to it: how ("return" | "panic"),
                  \*         whether it had shadowed a binding, and what Set or Get returned
                  \*         (err, v); how = "none" otherwise
  values,         \* manager -> gid -> Values map or NoSlot       (ContextManager.values)
  mgrs,           \* the managers constructed so far
  mgrRegistry,    \* the registered managers
  queue,          \* idPool.queue: released ids, oldest first
  curID,          \* idPool.curID
  held,           \* task -> the ids it got from idPool.Acquire itself and has not released
  globalMaps,     \* the slot array: its elements (a) and its length (len)
  curMaxGoroutineCount,
  extendLock,     \* the task holding extendLock for writing, 0 if none
  stored,         \* task -> what it has stored with Set since WrapWithGLS last reset its slot
  maxReq,         \* the largest X of the extend(X) calls completed so far, -1 if none
  mtx,            \* manager -> the task holding ContextManager.mtx, 0 if none
  mgrRegistryMtx, \* the writer of mgrRegistryMtx (w, 0 if none): the task that holds
                  \* the lock for writing or is next to; and the tasks holding it for
                  \* reading (r)
  lockSteps,      \* TRUE: taking a lock of a manager or of the registry is a step of its
                  \* own, the section under it another; FALSE: a section under one of
                  \* these locks is one step, from Lock to Unlock
  halted          \* the process has crashed (unrecovered panic or Go runtime fatal error)

taskVars == <<pc, stack, cur, how, gid, todo, ran, origin, inherit, ret>>
mgrVars == <<values, mgrs, mgrRegistry>>
poolVars == <<queue, curID>>
extVars == <<globalMaps, curMaxGoroutineCount, extendLock, stored, maxReq>>
lockVars == <<mtx, mgrRegistryMtx, lockSteps>>
vars == <<taskVars, mgrVars, poolVars, held, extVars, lockVars, halted>>

\* ------------------------------------------------------------------ values
\* A reference to a Values map held by a closure or a parameter: the map that
\* is m.values[g] while g # NoGid, and otherwise a map nothing else refers to,
\* given by its contents c.
Lit(c) == [m |-> 0, g |-> NoGid, c |-> c]
Ref(m, g) == [m |-> m, g |-> g, c |-> EmptyMap]

\* Variant: every manager keeps its slots in one and the same map.
ValuesOf_shared(m) == 1

\* ContextManager.values of manager m (each manager has a map of its own).
ValuesOf(m) == m

Slot(m, g) == values[ValuesOf(m)][g]
Deref(a) == IF a.g = NoGid THEN a.c
            ELSE IF Slot(a.m, a.g) = NoSlot THEN EmptyMap ELSE Slot(a.m, a.g)

\* Once the entry of (m, g) is deleted nothing writes the map any more: the
\* references closures still hold to it become references to its contents.
Freeze(a, m, g, c) ==
  IF a.g = g /\ a.g # NoGid /\ ValuesOf(a.m) = ValuesOf(m) THEN Lit(c) ELSE a

NoCur == [op |-> "none", m |-> 0, nv |-> Lit(EmptyMap), by |-> "user", ensured |-> FALSE,
          found |-> FALSE, seen |-> {}, old |-> EmptyMap, newv |-> EmptyMap,
          pre |-> EmptyMap, x |-> 0, copy |-> <<>>]
NoRet == [op |-> "none", how |-> "none", shadow |-> FALSE, err |-> "nil", v |-> None]

Top(t) == stack[t][Len(stack[t])]
Pop(t) == SubSeq(stack[t], 1, Len(stack[t]) - 1)
OwnFrames(t) == {i \in 1..Len(stack[t]) : stack[t][i].by = "user"}

\* ------------------------------------------------------------- identity pool
\* Variant: the counter is read and not advanced.
newID_noIncrement(c) == [id |-> c, cur |-> c]

\* idPool.newID: atomic.AddUint32(&p.curID, 1) - 1.
newID(c) == [id |-> c, cur |-> c + 1]
\* Variant: the item is returned and stays in the queue.
Dequeue_keepItem(q) == IF q = <<>> THEN [item |-> NoGid, q |-> q] ELSE [item |-> Head(q), q |-> q]
\* lockfree.Queue.Dequeue: the oldest item, NoGid for nil.
Dequeue(q) == IF q = <<>> THEN [item |-> NoGid, q |-> q] ELSE [item |-> Head(q), q |-> Tail(q)]
\* idPool.Release: queue.Enqueue(id).
Release(q, id) == Append(q, id)

\* ------------------------------------------------------------ GetValue
\* Variant: a task without a stack tag reads the slot of id 0.
GetValue_untagged(t, m, k) ==
  LET g == IF gid[t] = NoGid THEN 0 ELSE gid[t] IN
    IF Slot(m, g) = NoSlot THEN None ELSE Slot(m, g)[k]

\* ContextManager.GetValue for task t: the value, None for ok = false.
GetValue(t, m, k) ==
  IF gid[t] = NoGid THEN None
  ELSE IF Slot(m, gid[t]) = NoSlot THEN None
  ELSE Slot(m, gid[t])[k]

\* What GetValue returns in task t for every key of manager m.
View(t, m) == [k \in Keys |-> GetValue(t, m, k)]

\* ContextManager.getValues for task t: the slot itself, not a copy of it.
getValues(t, m) ==
  IF gid[t] = NoGid THEN Lit(EmptyMap)
  ELSE IF Slot(m, gid[t]) = NoSlot THEN Lit(EmptyMap)
  ELSE Ref(m, gid[t])

\* ---------------------------------------------------------------- locks
\* The task that holds a lock when task t runs a section under it.
Holder(t) == IF lockSteps THEN t ELSE 0

\* Variant: Unlock leaves the lock with its holder.
Unlock_kept(t) == t

\* sync.Mutex.Unlock, sync.RWMutex.Unlock by the holder t: nobody holds the lock.
Unlock(t) == 0

\* Variant: RUnlock leaves the reader registered.
RUnlock_kept(r, t) == r

\* sync.RWMutex.RUnlock by reader t.
RUnlock(r, t) == r \ {t}

\* ------------------------------------------------------------ SetValues
\* Variant: a key that is bound already keeps its value.
ApplyValues_keepBound(state, new_values) ==
  [k \in Keys |-> IF state[k] # None THEN state[k] ELSE new_values[k]]

\* The loop of lines 89-95 over a map nobody changes meanwhile.
ApplyValues(state, new_values) ==
  [k \in Keys |-> IF new_values[k] # None THEN new_values[k] ELSE state[k]]
MutatedVals(state, new_values) ==
  [k \in Keys |-> IF new_values[k] # None THEN state[k] ELSE None]
\* Variant: the keys the call added are not deleted.
RestoreValues_noDelete(state, mutated_keys, mutated_vals) ==
  [k \in Keys |-> IF k \in mutated_keys /\ mutated_vals[k] # None THEN mutated_vals[k]
                  ELSE state[k]]

\* The loop of lines 105-111.
RestoreValues(state, mutated_keys, mutated_vals) ==
  [k \in Keys |-> IF k \in mutated_keys THEN mutated_vals[k] ELSE state[k]]

\* A map write while another goroutine ranges over the same map is a data
\* race: the Go runtime may end the process ("concurrent map iteration and
\* map write") or let both go on.
Iterating(m, g) ==
  \E u \in Tasks : pc[u] = "sv_apply" /\ cur[u].nv.g = g /\ ValuesOf(cur[u].nv.m) = ValuesOf(m)
Fatal(m, g) == IF Iterating(m, g) THEN {FALSE, TRUE} ELSE {FALSE}

\* The Values a call of task t binding the keys K passes to SetValues.
Bindings(t, K) == [k \in Keys |-> IF k \in K THEN ValueOf(t, Len(stack[t])) ELSE None]

CallbackPc(by) == IF by = "user" THEN "user" ELSE "start"

Frame(c, kind, keys) ==
  [m |-> c.m, kind |-> kind, by |-> c.by, found |-> c.found, ensured |-> c.ensured,
   keys |-> keys, old |-> c.old, newv |-> c.newv, pre |-> c.pre]

PushFrame(t, c, keys) ==
  /\ stack' = [stack EXCEPT ![t] = Append(@, Frame(c, "set", keys))]
  /\ pc' = [pc EXCEPT ![t] = CallbackPc(c.by)]
  /\ cur' = [cur EXCEPT ![t] = NoCur]

\* Lines 81-95 with the stack tag in place: under m.mtx fetch or create the
\* slot, then copy new_values into it.  When new_values is a map another
\* goroutine may be writing (the map Go captured), the copy is one step per
\* key (SvApplyKey).
FetchSlot(t, c) ==
  LET m == c.m
      g == gid'[t]
      found == Slot(m, g) # NoSlot
      state == IF found THEN Slot(m, g) ELSE EmptyMap
      d == [c EXCEPT !.found = found, !.pre = state]
  IN IF d.nv.g = NoGid
     THEN /\ values' = [values EXCEPT ![ValuesOf(m)][g] = ApplyValues(state, d.nv.c)]
          /\ PushFrame(t, [d EXCEPT !.old = MutatedVals(state, d.nv.c), !.newv = d.nv.c],
                       BoundKeys(d.nv.c))
          /\ \E x \in Fatal(m, g) : halted' = x
     ELSE /\ values' = [values EXCEPT ![ValuesOf(m)][g] = state]
          /\ cur' = [cur EXCEPT ![t] = d]
          /\ pc' = [pc EXCEPT ![t] = "sv_apply"]
          /\ UNCHANGED <<stack, halted>>

\* Line 81: m.mtx.Lock().  The task goes on to the section at once, or waits for
\* the lock first.
EnterSetValues(t, c) ==
  IF lockSteps
  THEN /\ cur' = [cur EXCEPT ![t] = c]
       /\ pc' = [pc EXCEPT ![t] = "mtx_lock"]
       /\ UNCHANGED <<stack, values, halted>>
  ELSE FetchSlot(t, c)

\* Lines 71-80: the length test, then EnsureGoroutineId reads the stack tag:
\* with a tag the callback of EnsureGoroutineId runs at once, without one an
\* id is acquired first.
BeginSetValues(t, m, nv, by) ==
  LET c == [NoCur EXCEPT !.op = "SetValues", !.m = m, !.nv = nv, !.by = by,
                         !.ensured = (gid[t] = NoGid)]
  IN IF Size(Deref(nv)) = 0
     THEN /\ stack' = [stack EXCEPT ![t] = Append(@, Frame([NoCur EXCEPT !.m = m, !.by = by,
                                                    !.pre = View(t, m)], "empty", {}))]
          /\ pc' = [pc EXCEPT ![t] = CallbackPc(by)]
          /\ cur' = [cur EXCEPT ![t] = NoCur]
          /\ UNCHANGED <<gid, values, halted>>
     ELSE IF gid[t] = NoGid
     THEN /\ cur' = [cur EXCEPT ![t] = c]
          /\ pc' = [pc EXCEPT ![t] = "acquire"]
          /\ UNCHANGED <<stack, gid, values, halted>>
     ELSE /\ UNCHANGED gid
          /\ EnterSetValues(t, c)

\* The callback of a SetValues call that binds nothing makes no call: it
\* returns or panics.
InEmpty(t) == stack[t] # <<>> /\ Top(t).kind = "empty"

\* The calls user code of task t may have in progress.
DepthOf(t) == IF t = 1 THEN MaxDepth ELSE SpawnDepth

\* User code calls m.SetValues(new_values, callback), new_values binding the keys K.
CallSetValues(t, m, K) ==
  /\ ~halted /\ pc[t] = "user" /\ m \in mgrs
  /\ ~InEmpty(t)
  /\ Cardinality(OwnFrames(t)) < DepthOf(t)
  /\ BeginSetValues(t, m, Lit(Bindings(t, K)), "user")
  /\ ret' = [ret EXCEPT ![t] = NoRet]
  /\ UNCHANGED <<lockVars, how, todo, ran, origin, inherit, mgrs, mgrRegistry, poolVars, extVars, held>>

\* A spawned task starts: the outermost closure Go built, or the function itself.
Start(t) ==
  /\ ~halted /\ pc[t] = "start"
  /\ IF todo[t] = <<>>
     THEN /\ pc' = [pc EXCEPT ![t] = "user"]
          /\ ran' = [ran EXCEPT ![t] = @ + 1]
          /\ UNCHANGED <<stack, cur, todo, gid, values, halted>>
     ELSE /\ BeginSetValues(t, Head(todo[t]).m, Head(todo[t]).nv, "wrap")
          /\ todo' = [todo EXCEPT ![t] = Tail(@)]
          /\ UNCHANGED ran
  /\ UNCHANGED <<lockVars, how, origin, inherit, ret, mgrs, mgrRegistry, poolVars, extVars, held>>

\* An id has been acquired: EnsureGoroutineId tags the stack with it and runs
\* its callback (the rest of SetValues, of WrapWithGLS); a direct caller of
\* Acquire holds the id.
Acquired(t, id) ==
  IF cur[t].op = "SetValues"
  THEN /\ gid' = [gid EXCEPT ![t] = id]
       /\ EnterSetValues(t, cur[t])
       /\ UNCHANGED held
  ELSE IF cur[t].op = "WrapWithGLS"
  THEN /\ gid' = [gid EXCEPT ![t] = id]
       /\ pc' = [pc EXCEPT ![t] = "wrap_check"]
       /\ UNCHANGED <<stack, cur, values, held, halted>>
  ELSE /\ held' = [held EXCEPT ![t] = Append(@, id)]
       /\ pc' = [pc EXCEPT ![t] = "user"]
       /\ cur' = [cur EXCEPT ![t] = NoCur]
       /\ UNCHANGED <<gid, stack, values, halted>>

\* idPool.Acquire, lines 24-25: the queue first.
Acquire(t) ==
  /\ ~halted /\ pc[t] = "acquire"
  /\ LET d == Dequeue(queue) IN
       IF d.item # NoGid
       THEN /\ queue' = d.q
            /\ Acquired(t, d.item)
       ELSE /\ pc' = [pc EXCEPT ![t] = "newid"]
            /\ UNCHANGED <<gid, queue, stack, cur, values, held, halted>>
  /\ UNCHANGED <<lockVars, how, todo, ran, origin, inherit, ret, mgrs, mgrRegistry, curID, extVars>>

\* idPool.Acquire, line 27: the queue was empty, newID.
AcquireNew(t) ==
  /\ ~halted /\ pc[t] = "newid"
  /\ curID' = newID(curID).cur
  /\ Acquired(t, newID(curID).id)
  /\ UNCHANGED <<lockVars, how, todo, ran, origin, inherit, ret, mgrs, mgrRegistry, queue, extVars>>

\* One iteration of lines 89-95 over a map shared with its owner.
SvApplyKey(t, k) ==
  /\ ~halted /\ pc[t] = "sv_apply"
  /\ k \notin cur[t].seen
  /\ Deref(cur[t].nv)[k] # None
  /\ LET m == cur[t].m
         g == gid[t]
         v == Deref(cur[t].nv)[k]
     IN /\ values' = [values EXCEPT ![ValuesOf(m)][g][k] = v]
        /\ cur' = [cur EXCEPT ![t].seen = @ \cup {k}, ![t].old[k] = Slot(m, g)[k],
                              ![t].newv[k] = v]
        /\ \E x \in Fatal(m, g) : halted' = x
  /\ UNCHANGED <<lockVars, pc, stack, how, gid, todo, ran, origin, inherit, ret, mgrs, mgrRegistry,
                 poolVars, extVars, held>>

\* The range loop ends: lines 97-114, the callback is called.
SvApplyDone(t) ==
  /\ ~halted /\ pc[t] = "sv_apply"
  /\ BoundKeys(Deref(cur[t].nv)) \subseteq cur[t].seen
  /\ PushFrame(t, cur[t], cur[t].seen)
  /\ UNCHANGED <<lockVars, how, gid, todo, ran, origin, inherit, ret, mgrVars, poolVars, extVars, held, halted>>

\* ------------------------------------------------ leaving a callback
\* The task leaves the callback of its top frame in the way h: the callback
\* it runs at pc "user" returns or panics, or a callback further in has been
\* left already (pc "exit") and control passes on in the way how[t].
Leaving(t, h) ==
  /\ stack[t] # <<>>
  /\ \/ pc[t] = "user" /\ h \in {"return", "panic"}
     \/ pc[t] = "exit" /\ h = how[t]

\* Variant: the restoration follows the call of the callback, it is not deferred.
RunsDeferred_onReturn(h) == h = "return"

\* Line 97: the restoration is deferred, it runs when the callback returns and
\* when it panics.
RunsDeferred(h) == h \in {"return", "panic"}

\* Where control is after the frame f has been left.  User code that called f
\* goes on when f returns; when f panics its caller is left in turn, by the
\* panic or, if a deferred function of the caller recovers, by a return.  A
\* closure of Go has nothing after the call and nothing deferred.
After(f, h) ==
  IF f.by = "user"
  THEN (IF h = "panic" THEN {[pc |-> "exit", how |-> "panic"], [pc |-> "exit", how |-> "return"]}
        ELSE {[pc |-> "user", how |-> "return"]})
  ELSE {[pc |-> "exit", how |-> h]}

\* What the caller of the top frame of task t has got back.
Returned(t, h) == [NoRet EXCEPT !.op = Top(t).kind, !.how = h, !.shadow = Top(t).old # EmptyMap]

\* The frame is left: EnsureGoroutineId releases the id it acquired
\* (deferred, so on a panic too), and SetValues returns.
FinishFrame(t, h) ==
  LET f == Top(t) IN
  /\ IF f.ensured
     THEN /\ queue' = Release(queue, gid[t])
          /\ gid' = [gid EXCEPT ![t] = NoGid]
     ELSE UNCHANGED <<queue, gid>>
  /\ stack' = [stack EXCEPT ![t] = Pop(t)]
  /\ \E p \in After(f, h) :
       /\ pc' = [pc EXCEPT ![t] = p.pc]
       /\ how' = [how EXCEPT ![t] = p.how]

\* Lines 97, 105-111: the slot was there before the call, the keys are put back.
DeferRestore(t, h) ==
  /\ ~halted /\ Leaving(t, h)
  /\ Top(t).kind = "set" /\ Top(t).found
  /\ RunsDeferred(h)
  /\ LET f == Top(t)
         g == gid[t]
     IN /\ values' = [values EXCEPT ![ValuesOf(f.m)][g] = RestoreValues(@, f.keys, f.old)]
        /\ \E x \in Fatal(f.m, g) : halted' = x
  /\ FinishFrame(t, h)
  /\ ret' = [ret EXCEPT ![t] = Returned(t, h)]
  /\ UNCHANGED <<lockVars, cur, todo, ran, origin, inherit, mgrs, mgrRegistry, curID, extVars, held>>

\* Variant: the slot the call created is emptied and left in m.values.
DeferDelete_keepSlot(t, h) ==
  /\ ~halted /\ Leaving(t, h)
  /\ Top(t).kind = "set" /\ ~Top(t).found
  /\ RunsDeferred(h)
  /\ mtx[Top(t).m] = Holder(t)
  /\ mtx' = [mtx EXCEPT ![Top(t).m] = Unlock(t)]
  /\ values' = [values EXCEPT ![ValuesOf(Top(t).m)][gid[t]] = EmptyMap]
  /\ FinishFrame(t, h)
  /\ ret' = [ret EXCEPT ![t] = Returned(t, h)]
  /\ UNCHANGED <<mgrRegistryMtx, lockSteps, cur, todo, ran, origin, inherit, mgrs, mgrRegistry, curID, extVars, held, halted>>

\* Lines 97-103: the call created the slot, which is deleted under m.mtx.
DeferDelete(t, h) ==
  /\ ~halted /\ Leaving(t, h)
  /\ Top(t).kind = "set" /\ ~Top(t).found
  /\ RunsDeferred(h)
  /\ mtx[Top(t).m] = Holder(t)
  /\ mtx' = [mtx EXCEPT ![Top(t).m] = Unlock(t)]
  /\ LET f == Top(t)
         g == gid[t]
         c == IF Slot(f.m, g) = NoSlot THEN EmptyMap ELSE Slot(f.m, g)
     IN /\ values' = [values EXCEPT ![ValuesOf(f.m)][g] = NoSlot]
        /\ todo' = [u \in Tasks |->
                      [i \in 1..Len(todo[u]) |->
                         [todo[u][i] EXCEPT !.nv = Freeze(@, f.m, g, c)]]]
        /\ cur' = [u \in Tasks |-> [cur[u] EXCEPT !.nv = Freeze(@, f.m, g, c)]]
  /\ FinishFrame(t, h)
  /\ ret' = [ret EXCEPT ![t] = Returned(t, h)]
  /\ UNCHANGED <<mgrRegistryMtx, lockSteps, ran, origin, inherit, mgrs, mgrRegistry, curID,
                 extVars, held, halted>>

\* SetValues with no values has nothing deferred (lines 72-75).
DeferNone(t, h) ==
  /\ ~halted /\ Leaving(t, h)
  /\ (Top(t).kind = "empty" \/ ~RunsDeferred(h))
  /\ FinishFrame(t, h)
  /\ ret' = [ret EXCEPT ![t] = Returned(t, h)]
  /\ UNCHANGED <<lockVars, cur, todo, ran, origin, inherit, mgrVars, curID, extVars, held, halted>>

\* Nothing is left to unwind: the function of the task returns and the
\* goroutine ends, or it panics and the process ends.
ExitTask(t, h) ==
  /\ ~halted /\ stack[t] = <<>>
  /\ \/ pc[t] = "user" /\ h \in {"return", "panic"}
     \/ pc[t] = "exit" /\ h = how[t]
  /\ IF h = "panic"
     THEN halted' = TRUE /\ UNCHANGED <<pc, how, inherit, origin>>
     ELSE /\ pc' = [pc EXCEPT ![t] = "done"]
          /\ how' = [how EXCEPT ![t] = "return"]
          /\ inherit' = [inherit EXCEPT ![t] = [m \in Mgrs |-> EmptyMap]]
          /\ origin' = [origin EXCEPT ![t] = "none"]
          /\ UNCHANGED halted
  /\ ret' = [ret EXCEPT ![t] = NoRet]
  /\ UNCHANGED <<lockVars, stack, cur, gid, todo, ran, mgrVars, poolVars, extVars, held>>

\* ---------------------------------------------------------- the registry
\* NewContextManager: the new manager is registered under mgrRegistryMtx.
NewContextManager(t) ==
  /\ ~halted /\ pc[t] = "user"
  /\ ~InEmpty(t)
  /\ Cardinality(mgrs) < NumMgrs
  /\ mgrs' = mgrs \cup {Cardinality(mgrs) + 1}
  /\ mgrRegistry' = mgrRegistry \cup {Cardinality(mgrs) + 1}
  /\ ret' = [ret EXCEPT ![t] = NoRet]
  /\ UNCHANGED <<lockVars, pc, stack, cur, how, gid, todo, ran, origin, inherit, values, poolVars,
                 extVars, held, halted>>

\* Unregister: delete(mgrRegistry, m) under mgrRegistryMtx.
Unregister(t, m) ==
  /\ ~halted /\ pc[t] = "user"
  /\ ~InEmpty(t)
  /\ m \in mgrs
  /\ mgrRegistry' = mgrRegistry \ {m}
  /\ ret' = [ret EXCEPT ![t] = NoRet]
  /\ UNCHANGED <<lockVars, pc, stack, cur, how, gid, todo, ran, origin, inherit, values, mgrs, poolVars,
                 extVars, held, halted>>

\* ------------------------------------------------------------------- Go
Idle == {c \in Tasks : pc[c] = "idle"}
NextIdle == CHOOSE c \in Idle : \A d \in Idle : c <= d

\* The orders in which the range of line 160 can visit the managers of S.
Orders(S) == {o \in [1..Cardinality(S) -> S] : \A i, j \in 1..Cardinality(S) : o[i] = o[j] => i = j}

\* Lines 160-167: the closures around cb after the managers o[1..n] have been
\* visited, outermost first.  Each holds the map getValues returned.
RECURSIVE Closures(_, _, _)
Closures(t, o, n) ==
  IF n = 0 THEN <<>>
  ELSE IF Size(Deref(getValues(t, o[n]))) > 0
       THEN <<[m |-> o[n], nv |-> getValues(t, o[n])]>> \o Closures(t, o, n - 1)
       ELSE Closures(t, o, n - 1)

\* Go(cb), under the read lock of mgrRegistryMtx from line 157 to the return.
Go(t, o) ==
  /\ ~halted /\ pc[t] = "user"
  /\ ~InEmpty(t)
  /\ Idle # {}
  /\ LET c == NextIdle IN
       /\ pc' = [pc EXCEPT ![c] = "start"]
       /\ todo' = [todo EXCEPT ![c] = Closures(t, o, Len(o))]
       /\ origin' = [origin EXCEPT ![c] = "go"]
       /\ inherit' = [inherit EXCEPT ![c] =
                        [m \in Mgrs |-> IF m \in mgrRegistry THEN View(t, m) ELSE EmptyMap]]
  /\ ret' = [ret EXCEPT ![t] = NoRet]
  /\ UNCHANGED <<lockVars, stack, cur, how, gid, ran, mgrVars, poolVars, extVars, held, halted>>

\* The go statement.
GoStatement(t) ==
  /\ ~halted /\ pc[t] = "user"
  /\ ~InEmpty(t)
  /\ Idle # {}
  /\ pc' = [pc EXCEPT ![NextIdle] = "start"]
  /\ origin' = [origin EXCEPT ![NextIdle] = "plain"]
  /\ ret' = [ret EXCEPT ![t] = NoRet]
  /\ UNCHANGED <<lockVars, stack, cur, how, gid, todo, ran, inherit, mgrVars, poolVars, extVars, held, halted>>

\* ------------------------------------------------------------ the slot array
\* The ids below Issued are held by goroutines that take no further step.
Issued == initialMaxGoroutineCount - 1
\* The indices of globalMaps the tasks can hold.
SlotIds == Issued..(Issued + NumTasks - 1)
NilCtx == <<>>                  \* a nil context
Same == [same |-> TRUE, ctx |-> NilCtx]
MaxChunks == 1
\* The X of the extend(X) calls user code makes: the ends of the chunks.
Requests == {0} \cup {initialMaxGoroutineCount + j * extendUnit - e : j \in 0..MaxChunks, e \in {0, 1}}
Max(a, b) == IF a >= b THEN a ELSE b

\* Variant: the quotient is not advanced by one.
Unit_floor(goID, curMax) == ((goID - curMax) \div extendUnit) * extendUnit

\* Line 181.
Unit(goID, curMax) == ((goID - curMax) \div extendUnit + 1) * extendUnit

\* User code calls WrapWithGLS(f): EnsureGoroutineId reads the stack tag.
CallWrapWithGLS(t) ==
  /\ ~halted /\ pc[t] = "user"
  /\ Len(stack[t]) < DepthOf(t)
  /\ cur' = [cur EXCEPT ![t] = [NoCur EXCEPT !.op = "WrapWithGLS", !.ensured = (gid[t] = NoGid)]]
  /\ pc' = [pc EXCEPT ![t] = IF gid[t] = NoGid THEN "acquire" ELSE "wrap_check"]
  /\ ret' = [ret EXCEPT ![t] = NoRet]
  /\ UNCHANGED <<lockVars, stack, how, gid, todo, ran, origin, inherit, mgrVars, poolVars, held,
                 globalMaps, curMaxGoroutineCount, extendLock, stored, maxReq, halted>>

\* Lines 199-205: the test of the id against curMaxGoroutineCount, under the
\* read lock.
WrapCheck(t) ==
  /\ ~halted /\ pc[t] = "wrap_check"
  /\ extendLock = 0
  /\ IF gid[t] >= curMaxGoroutineCount
     THEN /\ pc' = [pc EXCEPT ![t] = "extend"]
          /\ cur' = [cur EXCEPT ![t].x = gid[t]]
     ELSE /\ pc' = [pc EXCEPT ![t] = "wrap_reset"]
          /\ UNCHANGED cur
  /\ UNCHANGED <<lockVars, stack, how, gid, todo, ran, origin, inherit, ret, mgrVars, poolVars, held,
                 extVars, halted>>

\* User code calls extend(X).
CallExtend(t, X) ==
  /\ ~halted /\ pc[t] = "user"
  /\ cur' = [cur EXCEPT ![t] = [NoCur EXCEPT !.op = "extend", !.x = X]]
  /\ pc' = [pc EXCEPT ![t] = "extend"]
  /\ ret' = [ret EXCEPT ![t] = NoRet]
  /\ UNCHANGED <<lockVars, stack, how, gid, todo, ran, origin, inherit, mgrVars, poolVars, held,
                 extVars, halted>>

\* Where extend returns to.
AfterExtend(t) == IF cur[t].op = "WrapWithGLS" THEN "wrap_reset" ELSE "user"
ExtendDone(t) ==
  IF cur[t].op = "WrapWithGLS" THEN [cur[t] EXCEPT !.x = 0, !.copy = <<>>] ELSE NoCur

\* extend, lines 178-182: the write lock, the test, and append copies the
\* elements into a new array.  An element of the copy refers to the map the
\* array refers to (Same) until the element of the array is assigned again.
Extend(t) ==
  /\ ~halted /\ pc[t] = "extend"
  /\ extendLock = 0
  /\ IF cur[t].x >= curMaxGoroutineCount
     THEN /\ extendLock' = t
          /\ cur' = [cur EXCEPT ![t].copy = [g \in SlotIds |-> Same]]
          /\ pc' = [pc EXCEPT ![t] = "append"]
          /\ UNCHANGED maxReq
     ELSE /\ maxReq' = Max(maxReq, cur[t].x)
          /\ pc' = [pc EXCEPT ![t] = AfterExtend(t)]
          /\ cur' = [cur EXCEPT ![t] = ExtendDone(t)]
          /\ UNCHANGED extendLock
  /\ UNCHANGED <<lockVars, stack, how, gid, todo, ran, origin, inherit, ret, mgrVars, poolVars, held,
                 globalMaps, curMaxGoroutineCount, stored, halted>>

\* extend, lines 182-183 and 179: globalMaps becomes the new slice, the count grows,
\* the lock is released.
ExtendAssign(t) ==
  /\ ~halted /\ pc[t] = "append"
  /\ LET unit == Unit(cur[t].x, curMaxGoroutineCount) IN
       /\ globalMaps' = [a |-> [g \in SlotIds |-> IF cur[t].copy[g].same
                                                  THEN globalMaps.a[g] ELSE cur[t].copy[g].ctx],
                         len |-> globalMaps.len + unit]
       /\ curMaxGoroutineCount' = curMaxGoroutineCount + unit
  /\ extendLock' = 0
  /\ maxReq' = Max(maxReq, cur[t].x)
  /\ cur' = [cur EXCEPT ![t] = ExtendDone(t)]
  /\ pc' = [pc EXCEPT ![t] = AfterExtend(t)]
  /\ UNCHANGED <<lockVars, stack, how, gid, todo, ran, origin, inherit, ret, mgrVars, poolVars, held,
                 stored, halted>>

\* A panic of the library in task t: it unwinds the callbacks.
Panics(t) ==
  /\ pc' = [pc EXCEPT ![t] = "exit"]
  /\ how' = [how EXCEPT ![t] = "panic"]

\* globalMaps[g] = c with no lock held: the element of the array globalMaps
\* refers to now is assigned; a copy extend has made keeps the old map.
AssignSlot(g, c) ==
  /\ globalMaps' = [globalMaps EXCEPT !.a[g] = c]
  /\ cur' = [u \in Tasks |->
               IF pc[u] = "append" /\ cur[u].copy[g].same
               THEN [cur[u] EXCEPT !.copy[g] = [same |-> FALSE, ctx |-> globalMaps.a[g]]]
               ELSE IF pc[u] = "wrap_reset" /\ gid[u] = g THEN NoCur ELSE cur[u]]

\* Lines 207-208: the slot is reset and f is called.
WrapReset(t) ==
  /\ ~halted /\ pc[t] = "wrap_reset"
  /\ IF gid[t] >= globalMaps.len
     THEN /\ Panics(t)
          /\ stack' = [stack EXCEPT ![t] = Append(@, Frame(cur[t], "wrap", {}))]
          /\ cur' = [cur EXCEPT ![t] = NoCur]
          /\ UNCHANGED <<globalMaps, stored>>
     ELSE /\ AssignSlot(gid[t], EmptyMap)
          /\ stack' = [stack EXCEPT ![t] = Append(@, Frame(cur[t], "wrap", {}))]
          /\ stored' = [stored EXCEPT ![t] = EmptyMap]
          /\ pc' = [pc EXCEPT ![t] = "user"]
          /\ UNCHANGED how
  /\ UNCHANGED <<lockVars, gid, todo, ran, origin, inherit, ret, mgrVars, poolVars, held,
                 curMaxGoroutineCount, extendLock, maxReq, halted>>

\* Variant: a goroutine without a stack tag gets the slot of the first id.
getGLS_untagged(t) ==
  LET g == IF gid[t] = NoGid THEN Issued ELSE gid[t] IN
    IF g >= globalMaps.len THEN [err |-> "index", ctx |-> NilCtx]
    ELSE [err |-> "nil", ctx |-> globalMaps.a[g]]

\* getGLS, lines 187-193: "NotEnabled", "index" for an index out of range,
\* else the element (a map, or NilCtx).
getGLS(t) ==
  IF gid[t] = NoGid THEN [err |-> "NotEnabled", ctx |-> NilCtx]
  ELSE IF gid[t] >= globalMaps.len THEN [err |-> "index", ctx |-> NilCtx]
  ELSE [err |-> "nil", ctx |-> globalMaps.a[gid[t]]]

\* Set(k, v), lines 212-219: the error of getGLS is returned; an assignment to
\* an entry of a nil map panics.
Set(t, k) ==
  /\ ~halted /\ pc[t] = "user"
  /\ LET g == getGLS(t)
         v == ValueOf(t, 0)
     IN IF g.err = "NotEnabled"
        THEN /\ ret' = [ret EXCEPT ![t] = [NoRet EXCEPT !.op = "Set", !.how = "return",
                                                        !.err = g.err]]
             /\ UNCHANGED <<globalMaps, stored, pc, how>>
        ELSE IF g.err = "index" \/ g.ctx = NilCtx
        THEN /\ Panics(t)
             /\ ret' = [ret EXCEPT ![t] = NoRet]
             /\ UNCHANGED <<globalMaps, stored>>
        ELSE /\ globalMaps' = [globalMaps EXCEPT !.a[gid[t]][k] = v]
             /\ stored' = [stored EXCEPT ![t][k] = v]
             /\ ret' = [ret EXCEPT ![t] = [NoRet EXCEPT !.op = "Set", !.how = "return"]]
             /\ UNCHANGED <<pc, how>>
  /\ UNCHANGED <<lockVars, stack, cur, gid, todo, ran, origin, inherit, mgrVars, poolVars, held,
                 curMaxGoroutineCount, extendLock, maxReq, halted>>

\* Get(k), lines 221-227, in task t: the value (None for nil) and the error;
\* reading a nil map gives nil.
Get(t, k) ==
  LET g == getGLS(t) IN
    IF g.err # "nil" THEN [v |-> None, err |-> g.err]
    ELSE [v |-> IF g.ctx = NilCtx THEN None ELSE g.ctx[k], err |-> "nil"]

\* User code calls Get(k): the index expression of line 192 panics when the id
\* is not below the length.
GetCall(t, k) ==
  /\ ~halted /\ pc[t] = "user"
  /\ IF Get(t, k).err = "index"
     THEN /\ Panics(t)
          /\ ret' = [ret EXCEPT ![t] = NoRet]
     ELSE /\ ret' = [ret EXCEPT ![t] = [NoRet EXCEPT !.op = "Get", !.how = "return",
                                                     !.err = Get(t, k).err, !.v = Get(t, k).v]]
          /\ UNCHANGED <<pc, how>>
  /\ UNCHANGED <<lockVars, stack, cur, gid, todo, ran, origin, inherit, mgrVars, poolVars, held,
                 extVars, halted>>

\* f returns or panics: WrapWithGLS has nothing deferred, EnsureGoroutineId
\* releases the id it acquired.
WrapReturn(t, h) ==
  /\ ~halted /\ Leaving(t, h)
  /\ Top(t).kind = "wrap"
  /\ FinishFrame(t, h)
  /\ stored' = [stored EXCEPT ![t] = IF Top(t).ensured THEN EmptyMap ELSE @]
  /\ ret' = [ret EXCEPT ![t] = Returned(t, h)]
  /\ UNCHANGED <<lockVars, cur, todo, ran, origin, inherit, mgrVars, curID, held, globalMaps,
                 curMaxGoroutineCount, extendLock, maxReq, halted>>

\* ---------------------------------------------- direct callers of the pool
MaxHeld == 2

\* A task calls idPool.Acquire.
CallAcquire(t) ==
  /\ ~halted /\ pc[t] = "user"
  /\ Len(held[t]) < MaxHeld
  /\ cur' = [cur EXCEPT ![t] = [NoCur EXCEPT !.op = "Acquire"]]
  /\ pc' = [pc EXCEPT ![t] = "acquire"]
  /\ UNCHANGED <<lockVars, stack, how, gid, todo, ran, origin, inherit, ret, mgrVars, poolVars, held,
                 extVars, halted>>

\* A task calls idPool.Release with the i-th id it holds.
CallRelease(t, i) ==
  /\ ~halted /\ pc[t] = "user"
  /\ i \in 1..Len(held[t])
  /\ queue' = Release(queue, held[t][i])
  /\ held' = [held EXCEPT ![t] = SubSeq(@, 1, i - 1) \o SubSeq(@, i + 1, Len(@))]
  /\ UNCHANGED <<lockVars, taskVars, mgrVars, curID, extVars, halted>>

\* ------------------------------------------------------------ specification
Init ==
  /\ pc = [t \in Tasks |-> IF t = 1 THEN "user" ELSE "idle"]
  /\ stack = [t \in Tasks |-> <<>>]
  /\ cur = [t \in Tasks |-> NoCur]
  /\ how = [t \in Tasks |-> "return"]
  /\ gid = [t \in Tasks |-> NoGid]
  /\ todo = [t \in Tasks |-> <<>>]
  /\ ran = [t \in Tasks |-> IF t = 1 THEN 1 ELSE 0]
  /\ origin = [t \in Tasks |-> IF t = 1 THEN "main" ELSE "none"]
  /\ inherit = [t \in Tasks |-> [m \in Mgrs |-> EmptyMap]]
  /\ ret = [t \in Tasks |-> NoRet]
  /\ values = [m \in Mgrs |-> [g \in Gids |-> NoSlot]]
  /\ mgrs = {}
  /\ mgrRegistry = {}
  /\ queue = <<>>
  /\ curID = 0
  /\ held = [t \in Tasks |-> <<>>]
  /\ globalMaps = [a |-> [g \in SlotIds |-> NilCtx], len |-> initialMaxGoroutineCount]
  /\ curMaxGoroutineCount = initialMaxGoroutineCount
  /\ extendLock = 0
  /\ stored = [t \in Tasks |-> EmptyMap]
  /\ maxReq = -1
  /\ mtx = [m \in Mgrs |-> 0]
  /\ mgrRegistryMtx = [w |-> 0, r |-> {}]
  /\ lockSteps = FALSE
  /\ halted = FALSE

Next ==
  \E t \in Tasks :
    \/ \E m \in Mgrs, K \in SUBSET Keys : CallSetValues(t, m, K)
    \/ Start(t)
    \/ Acquire(t)
    \/ AcquireNew(t)
    \/ \E k \in Keys : SvApplyKey(t, k)
    \/ SvApplyDone(t)
    \/ \E h \in {"return", "panic"} : DeferRestore(t, h)
    \/ \E h \in {"return", "panic"} : DeferDelete(t, h)
    \/ \E h \in {"return", "panic"} : DeferNone(t, h)
    \/ \E h \in {"return", "panic"} : ExitTask(t, h)
    \/ NewContextManager(t)
    \/ \E o \in Orders(mgrRegistry) : Go(t, o)
    \/ GoStatement(t)

Spec == Init /\ [][Next]_vars

\* The registry: managers are unregistered too; every call binds one key and
\* every callback returns.
NextReg ==
  \E t \in Tasks :
    \/ \E m \in Mgrs, k \in Keys : CallSetValues(t, m, {k})
    \/ Start(t)
    \/ Acquire(t)
    \/ AcquireNew(t)
    \/ \E k \in Keys : SvApplyKey(t, k)
    \/ SvApplyDone(t)
    \/ DeferRestore(t, "return")
    \/ DeferDelete(t, "return")
    \/ ExitTask(t, "return")
    \/ NewContextManager(t)
    \/ \E m \in Mgrs : Unregister(t, m)
    \/ \E o \in Orders(mgrRegistry) : Go(t, o)

SpecReg == Init /\ [][NextReg]_vars

\* The slot array: 1023 ids are in use when the tasks of the model start.
InitExt ==
  /\ pc = [t \in Tasks |-> IF t = 1 THEN "user" ELSE "idle"]
  /\ stack = [t \in Tasks |-> <<>>]
  /\ cur = [t \in Tasks |-> NoCur]
  /\ how = [t \in Tasks |-> "return"]
  /\ gid = [t \in Tasks |-> NoGid]
  /\ todo = [t \in Tasks |-> <<>>]
  /\ ran = [t \in Tasks |-> IF t = 1 THEN 1 ELSE 0]
  /\ origin = [t \in Tasks |-> IF t = 1 THEN "main" ELSE "none"]
  /\ inherit = [t \in Tasks |-> [m \in Mgrs |-> EmptyMap]]
  /\ ret = [t \in Tasks |-> NoRet]
  /\ values = [m \in Mgrs |-> [g \in Gids |-> NoSlot]]
  /\ mgrs = {}
  /\ mgrRegistry = {}
  /\ queue = <<>>
  /\ curID = Issued
  /\ held = [t \in Tasks |-> <<>>]
  /\ globalMaps = [a |-> [g \in SlotIds |-> NilCtx], len |-> initialMaxGoroutineCount]
  /\ curMaxGoroutineCount = initialMaxGoroutineCount
  /\ extendLock = 0
  /\ stored = [t \in Tasks |-> EmptyMap]
  /\ maxReq = -1
  /\ mtx = [m \in Mgrs |-> 0]
  /\ mgrRegistryMtx = [w |-> 0, r |-> {}]
  /\ lockSteps = FALSE
  /\ halted = FALSE

NextExt ==
  \E t \in Tasks :
    \/ GoStatement(t)
    \/ Start(t)
    \/ CallWrapWithGLS(t)
    \/ Acquire(t)
    \/ AcquireNew(t)
    \/ WrapCheck(t)
    \/ \E X \in Requests : CallExtend(t, X)
    \/ Extend(t)
    \/ ExtendAssign(t)
    \/ WrapReset(t)
    \/ \E k \in Keys : Set(t, k)
    \/ \E h \in {"return", "panic"} : WrapReturn(t, h)
    \/ \E h \in {"return", "panic"} : ExitTask(t, h)

SpecExt == InitExt /\ [][NextExt]_vars

\* ------------------------------------------------ the steps under a lock
\* m.mtx.Lock() (lines 81, 99, 128, 144): the task waits until nobody holds the
\* lock of the manager.
MtxLock(t) ==
  /\ ~halted /\ pc[t] = "mtx_lock"
  /\ mtx[cur[t].m] = 0
  /\ mtx' = [mtx EXCEPT ![cur[t].m] = t]
  /\ pc' = [pc EXCEPT ![t] = "mtx_held"]
  /\ UNCHANGED <<mgrRegistryMtx, lockSteps, stack, cur, how, gid, todo, ran, origin, inherit, ret,
                 mgrVars, poolVars, extVars, held, halted>>

\* SetValues, lines 82-87 under m.mtx, then the copy of lines 89-95.
SvFetch(t) ==
  /\ ~halted /\ pc[t] = "mtx_held" /\ cur[t].op = "SetValues"
  /\ UNCHANGED gid
  /\ FetchSlot(t, cur[t])
  /\ mtx' = [mtx EXCEPT ![cur[t].m] = Unlock(t)]
  /\ UNCHANGED <<mgrRegistryMtx, lockSteps, how, todo, ran, origin, inherit, ret, mgrs, mgrRegistry,
                 poolVars, extVars, held>>

\* Line 99: the callback has been left in the way h and the deferred function
\* of a call that created the slot waits for m.mtx.
DeferLock(t, h) ==
  /\ ~halted /\ lockSteps /\ Leaving(t, h)
  /\ Top(t).kind = "set" /\ ~Top(t).found
  /\ RunsDeferred(h)
  /\ mtx[Top(t).m] = 0
  /\ mtx' = [mtx EXCEPT ![Top(t).m] = t]
  /\ pc' = [pc EXCEPT ![t] = "exit"]
  /\ how' = [how EXCEPT ![t] = h]
  /\ UNCHANGED <<mgrRegistryMtx, lockSteps, stack, cur, gid, todo, ran, origin, inherit, ret,
                 mgrVars, poolVars, extVars, held, halted>>

\* User code calls m.GetValue(k): without a stack tag it returns at once
\* (lines 122-126), with one it goes for m.mtx (line 128).
CallGetValue(t, m, k) ==
  /\ ~halted /\ pc[t] = "user" /\ m \in mgrs
  /\ ~InEmpty(t)
  /\ IF gid[t] = NoGid
     THEN /\ ret' = [ret EXCEPT ![t] = [NoRet EXCEPT !.op = "GetValue", !.how = "return"]]
          /\ UNCHANGED <<pc, cur>>
     ELSE /\ cur' = [cur EXCEPT ![t] = [NoCur EXCEPT !.op = "GetValue", !.m = m, !.x = k]]
          /\ pc' = [pc EXCEPT ![t] = "mtx_lock"]
          /\ ret' = [ret EXCEPT ![t] = NoRet]
  /\ UNCHANGED <<lockVars, stack, how, gid, todo, ran, origin, inherit, mgrVars, poolVars,
                 extVars, held, halted>>

\* GetValue, lines 129-136: the slot is fetched under m.mtx and read.
GetValueRead(t) ==
  /\ ~halted /\ pc[t] = "mtx_held" /\ cur[t].op = "GetValue"
  /\ ret' = [ret EXCEPT ![t] = [NoRet EXCEPT !.op = "GetValue", !.how = "return",
                                             !.v = GetValue(t, cur[t].m, cur[t].x)]]
  /\ mtx' = [mtx EXCEPT ![cur[t].m] = Unlock(t)]
  /\ pc' = [pc EXCEPT ![t] = "user"]
  /\ cur' = [cur EXCEPT ![t] = NoCur]
  /\ UNCHANGED <<mgrRegistryMtx, lockSteps, stack, how, gid, todo, ran, origin, inherit, mgrVars,
                 poolVars, extVars, held, halted>>

\* User code calls Go(cb) and the task goes for the read lock of the registry
\* (line 157).  The goroutine to be is the next idle task; when every task of
\* the model is in use the goroutine is one the model does not follow.
GoCall(t) ==
  /\ ~halted /\ pc[t] = "user"
  /\ ~InEmpty(t)
  /\ IF Idle # {}
     THEN /\ cur' = [cur EXCEPT ![t] = [NoCur EXCEPT !.op = "Go", !.x = NextIdle]]
          /\ pc' = [pc EXCEPT ![t] = "reg_rlock", ![NextIdle] = "reserved"]
     ELSE /\ cur' = [cur EXCEPT ![t] = [NoCur EXCEPT !.op = "Go"]]
          /\ pc' = [pc EXCEPT ![t] = "reg_rlock"]
  /\ ret' = [ret EXCEPT ![t] = NoRet]
  /\ UNCHANGED <<lockVars, stack, how, gid, todo, ran, origin, inherit, mgrVars, poolVars,
                 extVars, held, halted>>

\* mgrRegistryMtx.RLock() (line 157): the task waits while a writer holds the
\* lock or waits for it.
RegRLock(t) ==
  /\ ~halted /\ pc[t] = "reg_rlock"
  /\ mgrRegistryMtx.w = 0
  /\ mgrRegistryMtx' = [mgrRegistryMtx EXCEPT !.r = @ \cup {t}]
  /\ pc' = [pc EXCEPT ![t] = "go_range"]
  /\ UNCHANGED <<mtx, lockSteps, stack, cur, how, gid, todo, ran, origin, inherit, ret, mgrVars,
                 poolVars, extVars, held, halted>>

\* Go, lines 160-161: the range comes to manager m.  getValues returns nil
\* without a stack tag (lines 141-143) and goes for m.mtx with one (line 144).
GoRange(t, m) ==
  /\ ~halted /\ pc[t] = "go_range"
  /\ m \in mgrRegistry \ cur[t].seen
  /\ IF gid[t] = NoGid
     THEN /\ cur' = [cur EXCEPT ![t].seen = @ \cup {m}]
          /\ UNCHANGED pc
     ELSE /\ cur' = [cur EXCEPT ![t].m = m]
          /\ pc' = [pc EXCEPT ![t] = "mtx_lock"]
  /\ UNCHANGED <<lockVars, stack, how, gid, todo, ran, origin, inherit, ret, mgrVars, poolVars,
                 extVars, held, halted>>

\* getValues, lines 145-147 under m.mtx, then lines 161-166 of Go: the closure
\* around cb holds the map getValues returned.
GoGetValues(t) ==
  /\ ~halted /\ pc[t] = "mtx_held" /\ cur[t].op = "Go"
  /\ LET m == cur[t].m
         v == getValues(t, m)
     IN cur' = [cur EXCEPT ![t].seen = @ \cup {m},
                           ![t].copy = IF Size(Deref(v)) > 0
                                       THEN <<[m |-> m, nv |-> v]>> \o @
                                       ELSE @]
  /\ mtx' = [mtx EXCEPT ![cur[t].m] = Unlock(t)]
  /\ pc' = [pc EXCEPT ![t] = "go_range"]
  /\ UNCHANGED <<mgrRegistryMtx, lockSteps, stack, how, gid, todo, ran, origin, inherit, ret,
                 mgrVars, poolVars, extVars, held, halted>>

\* Go, lines 169 and 158: the range is over, go cb() and the deferred RUnlock.
GoSpawn(t) ==
  /\ ~halted /\ pc[t] = "go_range"
  /\ mgrRegistry \subseteq cur[t].seen
  /\ LET c == cur[t].x IN
       IF c \in Tasks
       THEN /\ pc' = [pc EXCEPT ![t] = "user", ![c] = "start"]
            /\ todo' = [todo EXCEPT ![c] = cur[t].copy]
            /\ origin' = [origin EXCEPT ![c] = "go"]
       ELSE /\ pc' = [pc EXCEPT ![t] = "user"]
            /\ UNCHANGED <<todo, origin>>
  /\ cur' = [cur EXCEPT ![t] = NoCur]
  /\ mgrRegistryMtx' = [mgrRegistryMtx EXCEPT !.r = RUnlock(@, t)]
  /\ UNCHANGED <<mtx, lockSteps, stack, how, gid, ran, inherit, ret, mgrVars, poolVars, extVars,
                 held, halted>>

\* The callback the task runs returns: what SetValues deferred (line 97) and
\* the rest of WrapWithGLS (line 209) are library code again.
EndCallback(t) ==
  /\ ~halted /\ pc[t] = "user" /\ stack[t] # <<>>
  /\ pc' = [pc EXCEPT ![t] = "exit"]
  /\ how' = [how EXCEPT ![t] = "return"]
  /\ UNCHANGED <<lockVars, stack, cur, gid, todo, ran, origin, inherit, ret, mgrVars, poolVars,
                 extVars, held, halted>>

\* The managers being constructed: NewContextManager allocates the manager
\* (line 48) before it goes for the registry lock (line 49).
Constructing == {u \in Tasks : cur[u].op = "NewContextManager"}

\* User code calls NewContextManager().
CallNewContextManager(t) ==
  /\ ~halted /\ pc[t] = "user"
  /\ ~InEmpty(t)
  /\ Cardinality(mgrs) + Cardinality(Constructing) < NumMgrs
  /\ cur' = [cur EXCEPT ![t] = [NoCur EXCEPT !.op = "NewContextManager"]]
  /\ pc' = [pc EXCEPT ![t] = "reg_lock"]
  /\ ret' = [ret EXCEPT ![t] = NoRet]
  /\ UNCHANGED <<lockVars, stack, how, gid, todo, ran, origin, inherit, mgrVars, poolVars,
                 extVars, held, halted>>

\* User code calls Unregister(m).
CallUnregister(t, m) ==
  /\ ~halted /\ pc[t] = "user"
  /\ ~InEmpty(t)
  /\ m \in mgrs
  /\ cur' = [cur EXCEPT ![t] = [NoCur EXCEPT !.op = "Unregister", !.m = m]]
  /\ pc' = [pc EXCEPT ![t] = "reg_lock"]
  /\ ret' = [ret EXCEPT ![t] = NoRet]
  /\ UNCHANGED <<lockVars, stack, how, gid, todo, ran, origin, inherit, mgrVars, poolVars,
                 extVars, held, halted>>

\* mgrRegistryMtx.Lock() (lines 49, 59), as sync.RWMutex does it: the task
\* waits for the writers before it, and from then on no reader gets in.
RegLock(t) ==
  /\ ~halted /\ pc[t] = "reg_lock"
  /\ mgrRegistryMtx.w = 0
  /\ mgrRegistryMtx' = [mgrRegistryMtx EXCEPT !.w = t]
  /\ pc' = [pc EXCEPT ![t] = "reg_wait"]
  /\ UNCHANGED <<mtx, lockSteps, stack, cur, how, gid, todo, ran, origin, inherit, ret, mgrVars,
                 poolVars, extVars, held, halted>>

\* The readers that held the lock have left: Lock returns, the registry is
\* written and the lock released (lines 50-52 and 60-61).
RegWrite(t) ==
  /\ ~halted /\ pc[t] = "reg_wait"
  /\ mgrRegistryMtx.r = {}
  /\ IF cur[t].op = "NewContextManager"
     THEN /\ mgrs' = mgrs \cup {Cardinality(mgrs) + 1}
          /\ mgrRegistry' = mgrRegistry \cup {Cardinality(mgrs) + 1}
     ELSE /\ mgrRegistry' = mgrRegistry \ {cur[t].m}
          /\ UNCHANGED mgrs
  /\ mgrRegistryMtx' = [mgrRegistryMtx EXCEPT !.w = Unlock(t)]
  /\ pc' = [pc EXCEPT ![t] = "user"]
  /\ cur' = [cur EXCEPT ![t] = NoCur]
  /\ UNCHANGED <<mtx, lockSteps, stack, how, gid, todo, ran, origin, inherit, ret, values,
                 poolVars, extVars, held, halted>>

\* The slot array and a manager together: one manager has been constructed,
\* 1023 ids are in use, and tasks get their ids from SetValues as well as from
\* WrapWithGLS.  A callback panics only where the library does.
InitGls ==
  /\ pc = [t \in Tasks |-> IF t = 1 THEN "user" ELSE "idle"]
  /\ stack = [t \in Tasks |-> <<>>]
  /\ cur = [t \in Tasks |-> NoCur]
  /\ how = [t \in Tasks |-> "return"]
  /\ gid = [t \in Tasks |-> NoGid]
  /\ todo = [t \in Tasks |-> <<>>]
  /\ ran = [t \in Tasks |-> IF t = 1 THEN 1 ELSE 0]
  /\ origin = [t \in Tasks |-> IF t = 1 THEN "main" ELSE "none"]
  /\ inherit = [t \in Tasks |-> [m \in Mgrs |-> EmptyMap]]
  /\ ret = [t \in Tasks |-> NoRet]
  /\ values = [m \in Mgrs |-> [g \in SlotIds |-> NoSlot]]
  /\ mgrs = {1}
  /\ mgrRegistry = {1}
  /\ queue = <<>>
  /\ curID = Issued
  /\ held = [t \in Tasks |-> <<>>]
  /\ globalMaps = [a |-> [g \in SlotIds |-> NilCtx], len |-> initialMaxGoroutineCount]
  /\ curMaxGoroutineCount = initialMaxGoroutineCount
  /\ extendLock = 0
  /\ stored = [t \in Tasks |-> EmptyMap]
  /\ maxReq = -1
  /\ mtx = [m \in Mgrs |-> 0]
  /\ mgrRegistryMtx = [w |-> 0, r |-> {}]
  /\ lockSteps = FALSE
  /\ halted = FALSE

NextGls ==
  \E t \in Tasks :
    \/ GoStatement(t)
    \/ Start(t)
    \/ \E m \in Mgrs : CallSetValues(t, m, Keys)
    \/ CallWrapWithGLS(t)
    \/ Acquire(t)
    \/ AcquireNew(t)
    \/ WrapCheck(t)
    \/ Extend(t)
    \/ ExtendAssign(t)
    \/ WrapReset(t)
    \/ \E k \in Keys : Set(t, k)
    \/ \E k \in Keys : GetCall(t, k)
    \/ DeferRestore(t, how[t])
    \/ DeferDelete(t, how[t])
    \/ WrapReturn(t, how[t])
    \/ ExitTask(t, how[t])

SpecGls == InitGls /\ [][NextGls]_vars

\* The locks: taking a lock is a step, a task waits for a lock that is held.
\* A callback returns; it panics only where the library does.
InitLock ==
  /\ pc = [t \in Tasks |-> IF t = 1 THEN "user" ELSE "idle"]
  /\ stack = [t \in Tasks |-> <<>>]
  /\ cur = [t \in Tasks |-> NoCur]
  /\ how = [t \in Tasks |-> "return"]
  /\ gid = [t \in Tasks |-> NoGid]
  /\ todo = [t \in Tasks |-> <<>>]
  /\ ran = [t \in Tasks |-> IF t = 1 THEN 1 ELSE 0]
  /\ origin = [t \in Tasks |-> IF t = 1 THEN "main" ELSE "none"]
  /\ inherit = [t \in Tasks |-> [m \in Mgrs |-> EmptyMap]]
  /\ ret = [t \in Tasks |-> NoRet]
  /\ values = [m \in Mgrs |-> [g \in SlotIds |-> NoSlot]]
  /\ mgrs = {1}
  /\ mgrRegistry = {1}
  /\ queue = <<>>
  /\ curID = Issued
  /\ held = [t \in Tasks |-> <<>>]
  /\ globalMaps = [a |-> [g \in SlotIds |-> NilCtx], len |-> initialMaxGoroutineCount]
  /\ curMaxGoroutineCount = initialMaxGoroutineCount
  /\ extendLock = 0
  /\ stored = [t \in Tasks |-> EmptyMap]
  /\ maxReq = -1
  /\ mtx = [m \in Mgrs |-> 0]
  /\ mgrRegistryMtx = [w |-> 0, r |-> {}]
  /\ lockSteps = TRUE
  /\ halted = FALSE

\* User code binds values in manager 1 and reads them, constructs manager 2 and
\* unregisters it; Go ranges over the managers registered.
StepLock(t) ==
  \/ GoCall(t)
  \/ RegRLock(t)
  \/ \E m \in Mgrs : GoRange(t, m)
  \/ GoGetValues(t)
  \/ GoSpawn(t)
  \/ Start(t)
  \/ CallSetValues(t, 1, Keys)
  \/ Acquire(t)
  \/ AcquireNew(t)
  \/ MtxLock(t)
  \/ SvFetch(t)
  \/ \E k \in Keys : SvApplyKey(t, k)
  \/ SvApplyDone(t)
  \/ CallGetValue(t, 1, 1)
  \/ GetValueRead(t)
  \/ CallNewContextManager(t)
  \/ CallUnregister(t, 2)
  \/ RegLock(t)
  \/ RegWrite(t)
  \/ CallWrapWithGLS(t)
  \/ WrapCheck(t)
  \/ Extend(t)
  \/ ExtendAssign(t)
  \/ WrapReset(t)
  \/ EndCallback(t)
  \/ pc[t] = "exit" /\ DeferRestore(t, how[t])
  \/ pc[t] = "exit" /\ DeferLock(t, how[t])
  \/ pc[t] = "exit" /\ DeferDelete(t, how[t])
  \/ pc[t] = "exit" /\ WrapReturn(t, how[t])
  \/ ExitTask(t, how[t])

NextLock == \E t \in Tasks : StepLock(t)

SpecLock == InitLock /\ [][NextLock]_vars

\* The code of the library in task t: every step but those of user code.
LibStep(t) == pc[t] # "user" /\ StepLock(t)

\* The library code of every task goes on, and a task that waits for a lock
\* gets it when the lock is free again and again: sync.Mutex hands the lock to
\* a waiter that has been waiting for 1 ms (starvation mode), a waiting writer
\* of sync.RWMutex keeps new readers out and the readers that wait go in when
\* the writer unlocks.  Nothing is assumed about user code: a callback may
\* run forever.
SpecLockLib == SpecLock /\ \A t \in Tasks : SF_vars(LibStep(t))

\* The callback at stack depth d of task t returns.
CallbackReturns(t, d) == Len(stack[t]) = d /\ EndCallback(t)

\* The deepest stack of a task: main nests MaxDepth calls, a spawned task
\* runs in the closure of manager 1 and nests SpawnDepth calls.
StackDepth == IF MaxDepth > SpawnDepth + 1 THEN MaxDepth ELSE SpawnDepth + 1

\* The library code is that of StepLock; of the user code, main binds values
\* in manager 1, a spawned task constructs manager 2 and unregisters it, and
\* WrapWithGLS is called outside of callbacks.
StepLive(t) ==
  \/ GoCall(t)
  \/ RegRLock(t)
  \/ \E m \in Mgrs : GoRange(t, m)
  \/ GoGetValues(t)
  \/ GoSpawn(t)
  \/ Start(t)
  \/ t = 1 /\ CallSetValues(t, 1, Keys)
  \/ Acquire(t)
  \/ AcquireNew(t)
  \/ MtxLock(t)
  \/ SvFetch(t)
  \/ \E k \in Keys : SvApplyKey(t, k)
  \/ SvApplyDone(t)
  \/ CallGetValue(t, 1, 1)
  \/ GetValueRead(t)
  \/ t # 1 /\ CallNewContextManager(t)
  \/ t # 1 /\ CallUnregister(t, 2)
  \/ RegLock(t)
  \/ RegWrite(t)
  \/ stack[t] = <<>> /\ CallWrapWithGLS(t)
  \/ WrapCheck(t)
  \/ Extend(t)
  \/ ExtendAssign(t)
  \/ WrapReset(t)
  \/ EndCallback(t)
  \/ pc[t] = "exit" /\ DeferRestore(t, how[t])
  \/ pc[t] = "exit" /\ DeferLock(t, how[t])
  \/ pc[t] = "exit" /\ DeferDelete(t, how[t])
  \/ pc[t] = "exit" /\ WrapReturn(t, how[t])
  \/ ExitTask(t, how[t])

NextLive == \E t \in Tasks : StepLive(t)

\* The library code goes on as in SpecLockLib, and every callback terminates:
\* user code may make calls in a callback for as long as it likes, but in the
\* end the callback returns.
SpecLockFair ==
  /\ InitLock /\ [][NextLive]_vars
  /\ \A t \in Tasks : SF_vars(LibStep(t))
  /\ \A t \in Tasks : \A d \in 1..StackDepth : SF_vars(CallbackReturns(t, d))

\* The pool with direct callers: every task runs.
InitPool ==
  /\ pc = [t \in Tasks |-> "user"]
  /\ stack = [t \in Tasks |-> <<>>]
  /\ cur = [t \in Tasks |-> NoCur]
  /\ how = [t \in Tasks |-> "return"]
  /\ gid = [t \in Tasks |-> NoGid]
  /\ todo = [t \in Tasks |-> <<>>]
  /\ ran = [t \in Tasks |-> 1]
  /\ origin = [t \in Tasks |-> IF t = 1 THEN "main" ELSE "plain"]
  /\ inherit = [t \in Tasks |-> [m \in Mgrs |-> EmptyMap]]
  /\ ret = [t \in Tasks |-> NoRet]
  /\ values = [m \in Mgrs |-> [g \in Gids |-> NoSlot]]
  /\ mgrs = {}
  /\ mgrRegistry = {}
  /\ queue = <<>>
  /\ curID = 0
  /\ held = [t \in Tasks |-> <<>>]
  /\ globalMaps = [a |-> [g \in SlotIds |-> NilCtx], len |-> initialMaxGoroutineCount]
  /\ curMaxGoroutineCount = initialMaxGoroutineCount
  /\ extendLock = 0
  /\ stored = [t \in Tasks |-> EmptyMap]
  /\ maxReq = -1
  /\ mtx = [m \in Mgrs |-> 0]
  /\ mgrRegistryMtx = [w |-> 0, r |-> {}]
  /\ lockSteps = FALSE
  /\ halted = FALSE

NextPool ==
  \E t \in Tasks :
    \/ CallAcquire(t)
    \/ Acquire(t)
    \/ AcquireNew(t)
    \/ \E i \in 1..MaxHeld : CallRelease(t, i)

SpecPool == InitPool /\ [][NextPool]_vars


\* ------------------------------------------------------------------ claims
\* The frames of task t at or above frame i that bind key k in manager m.
Binders(t, i, m, k) ==
  {j \in i..Len(stack[t]) : stack[t][j].kind = "set" /\ stack[t][j].m = m /\ k \in stack[t][j].keys}
Innermost(S) == CHOOSE j \in S : \A x \in S : x <= j

\* C1: while the callback of m.SetValues(B, C) runs in a task, GetValue(k) in
\* that task returns B[k] for every key k of B, or the binding of the
\* innermost nested m.SetValues that rebinds k.
C1_CallbackSeesBindings ==
  \A t \in Tasks : pc[t] = "user" =>
    \A i \in 1..Len(stack[t]) : stack[t][i].kind = "set" =>
      \A k \in stack[t][i].keys :
        LET m == stack[t][i].m
            j == Innermost(Binders(t, i, m, k))
        IN /\ GetValue(t, m, k) # None
           /\ GetValue(t, m, k) = stack[t][j].newv[k]

\* A callback runs inside a nested call that rebinds a key of the same manager
\* and sees the inner value, which differs from the outer one.
C1_Witness ==
  \E t \in Tasks, m \in Mgrs, k \in Keys :
    /\ pc[t] = "user" /\ Len(stack[t]) = 2
    /\ Binders(t, 1, m, k) = {1, 2}
    /\ stack[t][1].newv[k] # stack[t][2].newv[k]
    /\ GetValue(t, m, k) = stack[t][2].newv[k]

\* C2: when m.SetValues(B, C) returns, at any nesting depth, GetValue in that
\* task returns for every key what it returned just before the call: the
\* keys of B are put back or removed, the other keys are as they were.
C2_ReturnRestores ==
  [][\A t \in Tasks, m \in Mgrs :
       (Len(stack'[t]) < Len(stack[t]) /\ ret'[t].how = "return" /\ Top(t).m = m)
         => View(t, m)' = Top(t).pre]_vars

\* A nested call that had shadowed a binding has returned, and the callback
\* around it sees the binding of the enclosing call again.
C2_Witness ==
  \E t \in Tasks, k \in Keys :
    /\ pc[t] = "user" /\ ret[t].how = "return" /\ ret[t].shadow
    /\ stack[t] # <<>> /\ k \in Top(t).keys
    /\ GetValue(t, Top(t).m, k) = Top(t).newv[k]

\* C3: when the callback of m.SetValues(B, C) panics the restoration runs all
\* the same before the panic goes on to the caller: the bindings of the task
\* in m are those from before the call, and a slot the call created is gone.
C3_PanicRestores ==
  [][\A t \in Tasks, m \in Mgrs, g \in Gids :
       (Len(stack'[t]) < Len(stack[t]) /\ ret'[t].how = "panic" /\ Top(t).m = m /\ gid[t] = g)
         => /\ View(t, m)' = Top(t).pre
            /\ (Top(t).kind = "set" /\ ~Top(t).found) => Slot(m, g)' = NoSlot]_vars

\* A nested call that had shadowed a binding was left by a panic, and the
\* task sees the binding of the enclosing call again.
C3_Witness ==
  \E t \in Tasks, k \in Keys :
    /\ ret[t].how = "panic" /\ ret[t].shadow
    /\ stack[t] # <<>> /\ k \in Top(t).keys
    /\ GetValue(t, Top(t).m, k) = Top(t).newv[k]

\* The function of a task spawned with Go is running, outside any call the
\* task has made itself.
InGoFunction(c) == origin[c] = "go" /\ pc[c] = "user" /\ OwnFrames(c) = {}

\* C4: a task spawned with Go sees the bindings its spawner had when Go was
\* called, whatever the spawner has done to its own bindings since.
C4_GoSnapshot ==
  \A c \in Tasks : InGoFunction(c) =>
    \A m \in Mgrs : View(c, m) = inherit[c][m]

\* C5: a task spawned with Go sees, in every registered manager, every key its
\* spawner had bound, with the spawner's value, and its function runs once.
C5_GoPropagates ==
  \A c \in Tasks : InGoFunction(c) =>
    /\ ran[c] = 1
    /\ \A m \in Mgrs, k \in Keys :
         inherit[c][m][k] # None => GetValue(c, m, k) = inherit[c][m][k]

\* C6: a task started with the go statement while its spawner is inside
\* SetValues scopes gets ok = false from GetValue for every key of every
\* manager, as long as it is in no SetValues call of its own.
C6_PlainSpawnSeesNothing ==
  \A c \in Tasks : (origin[c] = "plain" /\ pc[c] \in {"start", "user"} /\ stack[c] = <<>>) =>
    \A m \in Mgrs, k \in Keys : GetValue(c, m, k) = None

\* A task started with the go statement runs while another task has a binding.
C6_Witness ==
  \E c \in Tasks, t \in Tasks, m \in Mgrs, k \in Keys :
    /\ origin[c] = "plain" /\ pc[c] = "user" /\ stack[c] = <<>>
    /\ pc[t] = "user" /\ GetValue(t, m, k) # None

\* The step is one of m.SetValues in task t: the call, the steps up to the
\* callback, and those of the deferred restoration.
SetValuesStep(t, m) ==
  \/ cur[t].op = "SetValues" /\ cur[t].m = m /\ (pc'[t] # pc[t] \/ cur'[t] # cur[t])
  \/ cur[t].op = "none" /\ cur'[t].op = "SetValues" /\ cur'[t].m = m
  \/ Len(stack'[t]) > Len(stack[t]) /\ stack'[t][Len(stack'[t])].m = m
  \/ Len(stack'[t]) < Len(stack[t]) /\ Top(t).m = m

\* C7: no step of m1.SetValues changes what GetValue of another manager
\* returns, in any task.
C7_ManagersIsolated ==
  [][\A t \in Tasks, m1 \in Mgrs :
       SetValuesStep(t, m1) =>
         \A u \in Tasks, m2 \in Mgrs \ {m1} : View(u, m2)' = View(u, m2)]_vars

\* A task is in nested scopes of two managers that bind the same key, and
\* each manager returns its own value.
C7_Witness ==
  \E t \in Tasks, k \in Keys :
    /\ pc[t] = "user" /\ Len(stack[t]) = 2
    /\ stack[t][1].m # stack[t][2].m
    /\ k \in stack[t][1].keys /\ k \in stack[t][2].keys
    /\ GetValue(t, stack[t][1].m, k) = stack[t][1].newv[k]
    /\ GetValue(t, stack[t][2].m, k) = stack[t][2].newv[k]
    /\ stack[t][1].newv[k] # stack[t][2].newv[k]

\* The ids held: those tasks acquired themselves and those EnsureGoroutineId
\* tagged a stack with.
Holds(t) == {held[t][i] : i \in 1..Len(held[t])} \cup ({gid[t]} \ {NoGid})
HoldCount(t) == Len(held[t]) + (IF gid[t] = NoGid THEN 0 ELSE 1)

\* C8: under any interleaving of Acquire and Release by concurrent tasks, each
\* releasing only ids it holds and once, the ids held at any moment are
\* pairwise distinct: Acquire returns no id that is held.
C8_HeldIdsDistinct ==
  /\ \A t \in Tasks : Cardinality(Holds(t)) = HoldCount(t)
  /\ \A t, u \in Tasks : t # u => Holds(t) \cap Holds(u) = {}

\* Two tasks hold ids at the same time, after ids have been released and
\* while a released id waits in the queue.
C8_Witness ==
  \E t, u \in Tasks :
    /\ t # u /\ Len(held[t]) = MaxHeld /\ held[u] # <<>>
    /\ queue # <<>>

\* Task t runs the function it gave to WrapWithGLS.
InWrapped(t) == pc[t] = "user" /\ stack[t] # <<>> /\ Top(t).kind = "wrap"

\* C9: once a task has reset its slot in WrapWithGLS and stored v under k with
\* Set, Get(k) returns v in that task and neither Set nor Get faults, whatever
\* extend calls other tasks run for other indices meanwhile.
C9_GrowthKeepsSlots ==
  \A t \in Tasks : InWrapped(t) =>
    /\ getGLS(t).err = "nil"
    /\ getGLS(t).ctx # NilCtx
    /\ \A k \in Keys : stored[t][k] # None => Get(t, k) = [v |-> stored[t][k], err |-> "nil"]

\* The length extend(X) must give: the smallest multiple of extendUnit above X,
\* and not less than the initial length.
Needed(X) ==
  IF X < initialMaxGoroutineCount THEN initialMaxGoroutineCount
  ELSE (X \div extendUnit + 1) * extendUnit

\* C10: after any interleaving of extend(X) calls the length of the slot array
\* is a multiple of 128, is greater than every X requested, and is the larger
\* of 1024 and the smallest multiple of 128 above the largest X; it never
\* decreases, and extend(X) with X below the length changes nothing.
C10_ExtendLength ==
  /\ [](/\ globalMaps.len % extendUnit = 0
        /\ globalMaps.len > maxReq
        /\ globalMaps.len = Needed(maxReq)
        /\ globalMaps.len = curMaxGoroutineCount)
  /\ [][/\ globalMaps'.len >= globalMaps.len
        /\ \A t \in Tasks :
             (pc[t] = "extend" /\ pc'[t] # "extend" /\ cur[t].x < globalMaps.len)
               => (globalMaps' = globalMaps /\ curMaxGoroutineCount' = curMaxGoroutineCount)]_vars

\* The array has grown twice, the second time by a request beyond the next
\* chunk, and a request below the length has been made since.
C10_Witness ==
  /\ globalMaps.len = initialMaxGoroutineCount + 2 * extendUnit
  /\ maxReq = initialMaxGoroutineCount + extendUnit
  /\ \E t \in Tasks : pc[t] = "user" /\ extendLock = 0

\* Task t is inside a call of m.SetValues that has fetched or created its slot
\* (lines 82-112).
InSetValues(t, m) ==
  \/ \E i \in 1..Len(stack[t]) : stack[t][i].kind = "set" /\ stack[t][i].m = m
  \/ pc[t] = "sv_apply" /\ cur[t].m = m

\* C13: a manager has a slot for an identity only while the task that holds
\* the identity is inside a SetValues call on it.  A task that is inside no
\* SetValues call on m gets ok = false from m.GetValue for every key, and
\* m.values is empty when no task is inside a SetValues call on m.
C13_SlotOnlyInsideCall ==
  /\ \A t \in Tasks, m \in Mgrs : ~InSetValues(t, m) => View(t, m) = EmptyMap
  /\ \A m \in Mgrs, g \in Gids :
       Slot(m, g) # NoSlot => \E t \in Tasks : gid[t] = g /\ InSetValues(t, m)
  /\ \A m \in Mgrs :
       (\A t \in Tasks : ~InSetValues(t, m)) => \A g \in Gids : Slot(m, g) = NoSlot

\* The outermost SetValues call of a task has come back, by a return or by a
\* panic that was recovered: its identity is released, and the manager keeps a
\* slot for another task only, which is inside a call.
C13_Witness ==
  \E t, u \in Tasks, m \in Mgrs :
    /\ pc[t] = "user" /\ stack[t] = <<>> /\ ret[t].how # "none" /\ gid[t] = NoGid
    /\ Slot(m, 0) = NoSlot /\ queue # <<>>
    /\ u # t /\ InSetValues(u, m) /\ Slot(m, gid[u]) # NoSlot

\* The call of SetValues in progress at the top of the stack of task t binds
\* no key.
InEmptyCall(st) == st # <<>> /\ st[Len(st)].keys = {}

\* C15: m.SetValues with no bindings calls the callback and does nothing
\* else: the step that enters the call starts the callback and the step that
\* ends it leaves the call, neither acquires or releases an identity nor
\* creates or deletes a slot, and inside the callback GetValue returns what it
\* returned before the call.
C15_EmptyBindings ==
  /\ [](\A t \in Tasks :
          (pc[t] = "user" /\ InEmptyCall(stack[t])) => View(t, Top(t).m) = Top(t).pre)
  /\ [][\A t \in Tasks :
          /\ (Len(stack'[t]) > Len(stack[t]) /\ InEmptyCall(stack'[t]))
               => /\ pc'[t] = "user"
                  /\ UNCHANGED <<gid, queue, curID, values>>
          /\ (Len(stack'[t]) < Len(stack[t]) /\ InEmptyCall(stack[t]))
               => /\ stack'[t] = Pop(t)
                  /\ UNCHANGED <<gid, queue, curID, values>>]_vars

\* A callback runs inside a call with no bindings that was made inside a call
\* with bindings, and sees the bindings of the enclosing call.
C15_Witness ==
  \E t \in Tasks, k \in Keys :
    /\ pc[t] = "user" /\ Len(stack[t]) = 2 /\ InEmptyCall(stack[t])
    /\ stack[t][1].kind = "set" /\ stack[t][1].m = Top(t).m
    /\ GetValue(t, Top(t).m, k) = stack[t][1].newv[k] /\ GetValue(t, Top(t).m, k) # None

\* The ids in a sequence.
Range(q) == {q[i] : i \in 1..Len(q)}
\* The id Acquire has returned to its direct caller t.
Got(h, t) == h[t][Len(h[t])]

\* C18: an Acquire that finds the queue not empty returns the oldest released
\* id and leaves the counter alone; one that finds it empty returns the
\* counter's value and advances the counter by one, in one atomic step, so
\* that two concurrent calls get different ids.  Every id issued is below the
\* counter, and a released id is in the queue once and is held by nobody until
\* an Acquire returns it, which takes it out of the queue.
C18_AcquireRelease ==
  /\ [](/\ \A t \in Tasks : \A id \in Holds(t) : id < curID
        /\ \A id \in Range(queue) : id < curID
        /\ Cardinality(Range(queue)) = Len(queue)
        /\ \A t \in Tasks : Holds(t) \cap Range(queue) = {})
  /\ [][\A t \in Tasks :
          /\ (pc[t] = "acquire" /\ pc'[t] # "acquire")
               => IF queue # <<>>
                  THEN /\ pc'[t] = "user" /\ Len(held'[t]) = Len(held[t]) + 1
                       /\ Got(held', t) = Head(queue) /\ queue' = Tail(queue)
                       /\ curID' = curID
                  ELSE pc'[t] = "newid" /\ UNCHANGED <<queue, curID, held>>
          /\ (pc[t] = "newid" /\ pc'[t] # "newid")
               => /\ pc'[t] = "user" /\ Len(held'[t]) = Len(held[t]) + 1
                  /\ Got(held', t) = curID /\ curID' = curID + 1
                  /\ queue' = queue
                  /\ \A u \in Tasks : Got(held', t) \notin Holds(u)]_vars

\* Two tasks are in Acquire at once, both past an empty queue, one of them
\* holding the only id issued so far.
C18_Witness ==
  \E t, u \in Tasks :
    /\ t # u /\ pc[t] = "newid" /\ pc[u] = "newid"
    /\ queue = <<>> /\ curID = 1 /\ held[t] = <<0>>

\* C16: the registry holds the managers constructed and not unregistered; a
\* task spawned with Go sees, for every manager registered when Go was called,
\* the bindings its spawner had then, and no binding of any other manager;
\* Unregister changes no binding of any task.
C16_GoUsesRegistry ==
  /\ [](/\ mgrRegistry \subseteq mgrs
        /\ \A c \in Tasks : InGoFunction(c) => \A m \in Mgrs : View(c, m) = inherit[c][m])
  /\ [][/\ mgrs' # mgrs => mgrRegistry' = mgrRegistry \cup (mgrs' \ mgrs)
        /\ mgrs' = mgrs => mgrRegistry' \subseteq mgrRegistry
        /\ mgrRegistry' # mgrRegistry => \A t \in Tasks, m \in Mgrs : View(t, m)' = View(t, m)]_vars

\* Task t is inside a WrapWithGLS scope.
InScope(t) == \E i \in 1..Len(stack[t]) : stack[t][i].kind = "wrap"

\* C17: the slot of a task is reset when the task begins to use the storage
\* and not again: what the task has stored with Set inside a WrapWithGLS scope
\* is still what Get returns when a WrapWithGLS call the task makes inside that
\* scope starts its function.
C17_ResetOnce ==
  [][\A t \in Tasks :
       (pc[t] = "wrap_reset" /\ pc'[t] = "user" /\ InScope(t))
         => \A k \in Keys :
              stored[t][k] # None => Get(t, k)' = [v |-> stored[t][k], err |-> "nil"]]_vars

\* C11: what Get returns in a task is a value that task stored with Set
\* itself, or nothing: never what another task, an earlier holder of the
\* identity, left in the slot.
C11_NoStaleValues ==
  \A t \in Tasks :
    /\ ret[t].op = "Get" => ret[t].v \in {None, ValueOf(t, 0)}
    /\ (pc[t] = "user" /\ gid[t] # NoGid)
         => \A k \in Keys : Get(t, k).v \in {None, ValueOf(t, 0)}

\* The step is a call of Set or of Get by task t that has returned.
SetOrGet(t) == pc[t] = "user" /\ ret'[t] # ret[t] /\ ret'[t].op \in {"Set", "Get"}

\* C12: in a task that has no identity Set and Get return NotEnabled, Get
\* with no value, and the call changes neither the slot array nor the slots,
\* the set or the registry of the managers, nor the pool.
C12_NotEnabled ==
  /\ [](\A t \in Tasks, k \in Keys :
          gid[t] = NoGid => Get(t, k) = [v |-> None, err |-> "NotEnabled"])
  /\ [][\A t \in Tasks :
          (gid[t] = NoGid /\ SetOrGet(t))
            => /\ ret'[t].err = "NotEnabled" /\ ret'[t].v = None
               /\ UNCHANGED <<globalMaps, curMaxGoroutineCount, stored, mgrVars, poolVars, gid>>]_vars

\* A task without an identity has called Get and got NotEnabled while another
\* task, inside SetValues and WrapWithGLS, has a value in its slot.
C12_Witness ==
  \E t, u \in Tasks, m \in Mgrs, k \in Keys :
    /\ gid[t] = NoGid /\ ret[t].op = "Get" /\ ret[t].err = "NotEnabled"
    /\ u # t /\ gid[u] # NoGid /\ Slot(m, gid[u]) # NoSlot
    /\ Get(u, k) = [v |-> ValueOf(u, 0), err |-> "nil"]

\* C19: the index WrapWithGLS, Set and Get use, the id of the task, is below
\* the length of the slot array whenever a task can use it: when WrapWithGLS
\* resets the slot, and wherever user code of a task that has an id runs.
C19_IndexInRange ==
  \A t \in Tasks :
    (pc[t] = "wrap_reset" \/ (pc[t] = "user" /\ gid[t] # NoGid)) => gid[t] < globalMaps.len

\* Task t holds a lock of the library: the lock of a manager, the registry
\* lock as writer or as reader, the lock of the slot array as writer (its
\* read sections are single steps).
HoldsLock(t) ==
  \/ \E m \in Mgrs : mtx[m] = t
  \/ mgrRegistryMtx.w = t
  \/ t \in mgrRegistryMtx.r
  \/ extendLock = t

\* Task t runs a callback of SetValues or of WrapWithGLS.
InCallback(t) == pc[t] = "user" /\ stack[t] # <<>>

\* Task t runs code of the library, or waits in it.
InLib(t) == pc[t] \notin {"idle", "reserved", "done", "user"}

\* C14: a task that runs a callback of SetValues or of WrapWithGLS holds no
\* lock of the library; and with nothing assumed about the callbacks, which
\* may run forever, the library code of every call comes to an end: a task
\* that waits for a lock gets it and goes on to its callback or to its return
\* (unless the process has ended with the fatal error of a map race).
C14_NoLockInCallback ==
  /\ [](\A t \in Tasks : InCallback(t) => ~HoldsLock(t))
  /\ \A t \in Tasks : InLib(t) ~> (~InLib(t) \/ halted)

\* A task runs the callback of a SetValues call on manager 1 while another
\* task is under the lock of manager 1.
C14_Witness ==
  \E t, u \in Tasks :
    /\ t # u
    /\ InCallback(t) /\ Top(t).kind = "set" /\ Top(t).m = 1
    /\ mtx[1] = u /\ pc[u] = "mtx_held"

\* Task t has a call in progress: it is in library code, or in a callback.
Busy(t) == InLib(t) \/ stack[t] # <<>>

\* C20: with callbacks that terminate and fair scheduling, a task that has a
\* call in progress comes to a point where every call it made has returned
\* (the other way for calls to end is the end of the process by the fatal
\* error of a map race, which is not a wait for a lock).
C20_CallsReturn == \A t \in Tasks : Busy(t) ~> (~Busy(t) \/ halted)

\* NewContextManager waits for the registry lock that a Go call made from
\* inside a SetValues callback holds as reader.
C20_Witness ==
  \E t, u \in Tasks :
    /\ pc[t] = "reg_wait" /\ cur[t].op = "NewContextManager"
    /\ u \in mgrRegistryMtx.r /\ cur[u].op = "Go" /\ stack[u] # <<>>


====
